---- MODULE Spec2Model ----
(***************************************************************************)
(* Model of source/contentRecog/recogUi.py: the user interface for content *)
(* recognition.  recognizeNavigatorObject starts a recognition session (a  *)
(* RefreshableRecogResultNVDAObject), the recognizer later delivers the    *)
(* result to _onFirstResult / _onResult, possibly on a background thread,  *)
(* and core.callLater timers re-run _recognize.                            *)
(*                                                                         *)
(* Sessions are numbered 1..MaxSessions in creation order; 0 stands for    *)
(* None (no session, no result) and for a failed recognition (Exception).  *)
(* The real objects of the host that can hold focus are numbers of         *)
(* (1 - NumExtObjects)..0: object 0 alone, or objects -1 and 0, and so on. *)
(***************************************************************************)
EXTENDS Integers, Sequences, FiniteSets, TLC

\* ---------------------------------------------------------------- bounds
MaxSessions == 3
NumExtObjects == 2
\* Objects of a run: the real objects of the host plus the presenters created.
MaxObjects == 4
NumResults == 2
\* Asynchronous work under way at once, over all sessions: recognize calls
\* whose callback is due or running, armed timers, queued events.
MaxOutstanding == 2

Sessions == 1..MaxSessions
ExtObjects == (1 - NumExtObjects)..0
Results == 1..NumResults
None == 0

\* The number of characters of the text of recognition result r: results
\* 1 and 2 are two texts of one character, 3 and 4 of two, and so on.
TextLen(r) == (r + 1) \div 2

\* The user messages of the module.
MsgAlreadyInResult == "Already in a content recognition result"
MsgNotVisible == "Content is not visible"
MsgRecognizing == "Recognizing"
MsgRecognitionFailed == "Recognition failed"
MsgRefreshFailed == "Refresh of recognition result failed"
MsgAlreadyAuto == "The result of content recognition is already automatically updated"

VARIABLES
  activeRecog,       \* _activeRecog: the session in progress, or None
  nSessions,         \* number of RefreshableRecogResultNVDAObject created
  allowAutoRefresh,  \* [s] recognizer.allowAutoRefresh of session s
  parent,            \* [s] self.parent: the focus object at construction
  result,            \* [s] self.result: None or a result
  selection,         \* [s] self._selection: offsets into the result text
  firstCb,           \* [s] the recognize call made by start(): "none" (not made),
                     \*     "pending", "cancelling" (pending, cancel() called),
                     \*     "running" (callback under way), "late" (callback
                     \*     under way after cancel()), "done", "dropped"
  refreshCb,         \* [s] an _onResult call of s is past its focus check
  cbArg,             \* [s] the argument of the callback of s under way
  inFlight,          \* [s] refresh recognize calls whose callback is due
  timers,            \* [s] armed core.callLater timers
  monitoring,        \* [s] LiveText monitoring is started
  hostObjects,       \* the real objects of the host in this run
  focus,             \* api.getFocusObject()
  eventQueue,        \* queueHandler.eventQueue
  mainPc,            \* where the main thread is inside recognizeNavigatorObject
  startAuto,         \* allowAutoRefresh of the recognizer being started
  said,              \* what the last step passed to ui.message, "" if nothing
  textChange         \* the presenter whose event_textChange the last step
                     \* raised, None if none

\* The state of the program.
progVars == <<activeRecog, nSessions, allowAutoRefresh, parent, result,
              selection, firstCb, refreshCb, cbArg, inFlight, timers,
                 monitoring, hostObjects, focus, eventQueue, mainPc, startAuto>>

vars == <<progVars, said, textChange>>

\* A TextInfo: the result it reads and its offsets.  No _selection yet:
NoSelection == [res |-> None, start |-> 0 - 1, end |-> 0 - 1]

Init ==
  /\ activeRecog = None
  /\ nSessions = 0
  /\ allowAutoRefresh = [s \in Sessions |-> FALSE]
  /\ parent = [s \in Sessions |-> 0]
  /\ result = [s \in Sessions |-> None]
  /\ selection = [s \in Sessions |-> NoSelection]
  /\ firstCb = [s \in Sessions |-> "none"]
  /\ refreshCb = [s \in Sessions |-> FALSE]
  /\ cbArg = [s \in Sessions |-> 0]
  /\ inFlight = [s \in Sessions |-> 0]
  /\ timers = [s \in Sessions |-> 0]
  /\ monitoring = [s \in Sessions |-> FALSE]
  /\ hostObjects \in {(1 - n)..0 : n \in 1..NumExtObjects}
  /\ focus \in hostObjects
  /\ eventQueue = <<>>
  /\ mainPc = "idle"
  /\ startAuto = FALSE
  /\ said = ""
  /\ textChange = None

RECURSIVE SumTo(_, _)
SumTo(f, n) == IF n = 0 THEN 0 ELSE f[n] + SumTo(f, n - 1)

\* The asynchronous work under way.
Outstanding ==
  SumTo(timers, MaxSessions) + SumTo(inFlight, MaxSessions) + Len(eventQueue)
  + Cardinality({s \in Sessions : firstCb[s] \in {"pending", "cancelling", "running", "late"} \/ refreshCb[s]})

\* ------------------------------------------------------ RecogResultNVDAObject

\* isinstance(api.getFocusObject(), RecogResultNVDAObject)
IsResultObject(o) == o \in Sessions

\* _get_hasFocus
hasFocus(s) == focus = s

\* textInfos.POSITION_FIRST, POSITION_LAST, POSITION_SELECTION, POSITION_CARET
\* and the bookmark of a TextInfo (the offsets it holds).
POSITION_FIRST == [kind |-> "first", start |-> 0, end |-> 0]
POSITION_LAST == [kind |-> "last", start |-> 0, end |-> 0]
POSITION_SELECTION == [kind |-> "selection", start |-> 0, end |-> 0]
POSITION_CARET == [kind |-> "caret", start |-> 0, end |-> 0]

\* The bookmark of the start of the text whatever the TextInfo.
bookmarkOfStart(ti) == [kind |-> "bookmark", start |-> 0, end |-> 0]

bookmark(ti) == [kind |-> "bookmark", start |-> ti.start, end |-> ti.end]

\* RecognitionResult.makeTextInfo: the TextInfo of result res at a
\* position: collapsed at the start or the end of the text, or at the
\* offsets of a bookmark (at the start of the text when the bookmark does
\* not resolve in this text).
resultTextInfo(res, position) ==
  IF position.kind = "first" THEN [res |-> res, start |-> 0, end |-> 0]
  ELSE IF position.kind = "last"
    THEN [res |-> res, start |-> TextLen(res), end |-> TextLen(res)]
  ELSE IF position.end > TextLen(res) THEN [res |-> res, start |-> 0, end |-> 0]
  ELSE [res |-> res, start |-> position.start, end |-> position.end]

\* makeTextInfo answering the selection whatever the position.
makeTextInfoSelection(sel, res, position) == sel

\* makeTextInfo of a presenter whose _selection is sel and whose result is res.
makeTextInfo(sel, res, position) ==
  IF position.kind = "selection" THEN sel
  ELSE IF position.kind = "caret"
    THEN [res |-> sel.res, start |-> sel.start, end |-> sel.start]
  ELSE resultTextInfo(res, position)

\* setFocus: queue a gainFocus event for the presenter.
setFocus(q, s) == Append(q, [kind |-> "gainFocus", obj |-> s, text |-> ""])

\* queueHandler.queueFunction(queueHandler.eventQueue, ui.message, text)
queueMessage(q, text) == Append(q, [kind |-> "message", obj |-> 0, text |-> text])

\* ------------------------------------------- RefreshableRecogResultNVDAObject

\* The test of the focus left out.
recognizeSkipsNever(s) == FALSE

\* _recognize returns at once: recognized before, and no focus any more.
recognizeSkips(s) == result[s] # None /\ ~hasFocus(s)

\* _scheduleRecognize / core.callLater: one more armed timer for s.
scheduleRecognize(t, s) == [t EXCEPT ![s] = @ + 1]

\* event_loseFocus of the object that held focus (nothing for a real object).
event_loseFocus(m, o) == IF o \in Sessions THEN [m EXCEPT ![o] = FALSE] ELSE m

\* event_gainFocus of presenter s.
event_gainFocus(m, s) == IF allowAutoRefresh[s] THEN [m EXCEPT ![s] = TRUE] ELSE m

\* _onFirstResult, line 148: _activeRecog = None.  The recognizer calls
\* back with a result r, or with an Exception (r = 0).
onFirstResultClear(s, r) ==
  /\ firstCb[s] \in {"pending", "cancelling"}
  /\ activeRecog' = None
  /\ firstCb' = [firstCb EXCEPT ![s] = IF @ = "cancelling" THEN "late" ELSE "running"]
  /\ cbArg' = [cbArg EXCEPT ![s] = r]
  /\ said' = ""
  /\ hostObjects' = hostObjects
  /\ textChange' = None
  /\ UNCHANGED <<nSessions, allowAutoRefresh, parent, result, selection, refreshCb,
                 inFlight, timers, monitoring, focus, eventQueue,
                 mainPc, startAuto>>

\* The return at line 158 left out.
firstResultFailedNever(r) == FALSE

\* Whether _onFirstResult returns at line 158: the argument is an Exception.
firstResultFailed(r) == r = 0

\* _onFirstResult, lines 150-164.
onFirstResultRest(s) ==
  /\ firstCb[s] \in {"running", "late"}
  /\ IF firstResultFailed(cbArg[s])
     THEN /\ eventQueue' = queueMessage(eventQueue, MsgRecognitionFailed)
          /\ UNCHANGED <<result, selection, timers>>
     ELSE /\ result' = [result EXCEPT ![s] = cbArg[s]]
          /\ selection' = [selection EXCEPT
                             ![s] = makeTextInfo(selection[s], cbArg[s], POSITION_FIRST)]
          /\ eventQueue' = setFocus(eventQueue, s)
          /\ IF allowAutoRefresh[s]
             THEN Outstanding < MaxOutstanding /\ timers' = scheduleRecognize(timers, s)
             ELSE UNCHANGED timers
  /\ firstCb' = [firstCb EXCEPT ![s] = "done"]
  /\ cbArg' = [cbArg EXCEPT ![s] = 0]
  /\ said' = ""
  /\ hostObjects' = hostObjects
  /\ textChange' = None
  /\ UNCHANGED <<activeRecog, nSessions, allowAutoRefresh, parent, refreshCb,
                 inFlight, monitoring, focus, mainPc, startAuto>>

\* The focus test left out.
dismissedNever(s) == FALSE

\* Whether _onResult returns at line 185: the user has dismissed the result.
dismissed(s) == ~hasFocus(s)

\* _onResult, lines 183-185: the focus check.  The recognizer calls back
\* with a result r, or with an Exception (r = 0).
onResultCheck(s, r) ==
  /\ inFlight[s] > 0
  /\ ~refreshCb[s]
  /\ inFlight' = [inFlight EXCEPT ![s] = @ - 1]
  /\ IF dismissed(s)
     THEN UNCHANGED <<refreshCb, cbArg>>
     ELSE /\ refreshCb' = [refreshCb EXCEPT ![s] = TRUE]
          /\ cbArg' = [cbArg EXCEPT ![s] = r]
  /\ said' = ""
  /\ hostObjects' = hostObjects
  /\ textChange' = None
  /\ UNCHANGED <<activeRecog, nSessions, allowAutoRefresh, parent, result,
                 selection, firstCb, timers, monitoring, focus,
                 eventQueue, mainPc, startAuto>>

\* The return at line 195 left out.
refreshFailedNever(r) == FALSE

\* Whether _onResult returns at line 195: the argument is an Exception.
refreshFailed(r) == r = 0

\* The timer armed whatever allowAutoRefresh is.
rearmsAlways(s) == TRUE

\* Whether _onResult arms the next timer (lines 202-203).
rearms(s) == allowAutoRefresh[s]

\* _onResult, lines 186-203.
onResultRest(s) ==
  /\ refreshCb[s]
  /\ IF refreshFailed(cbArg[s])
     THEN /\ eventQueue' = queueMessage(eventQueue, MsgRefreshFailed)
          /\ monitoring' = [monitoring EXCEPT ![s] = FALSE]
          /\ textChange' = None
          /\ UNCHANGED <<result, selection, timers>>
     ELSE /\ result' = [result EXCEPT ![s] = cbArg[s]]
          /\ selection' = [selection EXCEPT
                             ![s] = makeTextInfo(selection[s], cbArg[s],
                                                 bookmark(selection[s]))]
          /\ textChange' = s
          /\ IF rearms(s)
             THEN timers' = scheduleRecognize(timers, s)
             ELSE UNCHANGED timers
          /\ UNCHANGED <<eventQueue, monitoring>>
  /\ refreshCb' = [refreshCb EXCEPT ![s] = FALSE]
  /\ cbArg' = [cbArg EXCEPT ![s] = 0]
  /\ said' = ""
  /\ hostObjects' = hostObjects
  /\ UNCHANGED <<activeRecog, nSessions, allowAutoRefresh, parent, firstCb,
                 inFlight, focus, mainPc, startAuto>>

\* _recognize(_onResult), called by an armed core.callLater timer of s that
\* fires on the main thread.
recognize(s) ==
  /\ mainPc = "idle"
  /\ timers[s] > 0
  /\ timers' = [timers EXCEPT ![s] = @ - 1]
  /\ inFlight' = IF recognizeSkips(s) THEN inFlight
                 ELSE [inFlight EXCEPT ![s] = @ + 1]
  /\ said' = ""
  /\ hostObjects' = hostObjects
  /\ textChange' = None
  /\ UNCHANGED <<activeRecog, nSessions, allowAutoRefresh, parent, result,
                 selection, firstCb, refreshCb, cbArg, monitoring,
                 focus, eventQueue, mainPc, startAuto>>

\* The test of allowAutoRefresh left out.
refreshRefusedNever(s) == FALSE

\* Whether script_refreshBuffer returns at line 179.
refreshRefused(s) == allowAutoRefresh[s]

\* script_refreshBuffer, the gesture NVDA+f5 on the focused presenter.
script_refreshBuffer(s) ==
  /\ mainPc = "idle"
  /\ hasFocus(s)
  /\ IF refreshRefused(s)
     THEN /\ UNCHANGED timers
          /\ said' = MsgAlreadyAuto
          /\ hostObjects' = hostObjects
          /\ textChange' = None
     ELSE /\ Outstanding < MaxOutstanding
          /\ timers' = scheduleRecognize(timers, s)
          /\ said' = ""
          /\ hostObjects' = hostObjects
          /\ textChange' = None
  /\ UNCHANGED <<activeRecog, nSessions, allowAutoRefresh, parent, result,
                 selection, firstCb, refreshCb, cbArg, inFlight,
                 monitoring, focus, eventQueue, mainPc, startAuto>>

\* Focus given to the first real object whatever the parent.
exitFocusFirst(s) == 0

\* The object script_exit executes gainFocus on: self.parent.
exitFocus(s) == parent[s]

\* script_exit, the gesture escape: the parent gains focus at once.
script_exit(s) ==
  /\ mainPc = "idle"
  /\ hasFocus(s)
  /\ focus' = exitFocus(s)
  /\ monitoring' = event_loseFocus(monitoring, s)
  /\ said' = ""
  /\ hostObjects' = hostObjects
  /\ textChange' = None
  /\ UNCHANGED <<activeRecog, nSessions, allowAutoRefresh, parent, result,
                 selection, firstCb, refreshCb, cbArg, inFlight, timers,
                 eventQueue, mainPc, startAuto>>

\* A cursor key on the focused presenter: cursorManager moves the caret to
\* offset k of the result text.
moveCaret(s, k) ==
  /\ mainPc = "idle"
  /\ hasFocus(s)
  /\ result[s] # None
  /\ k \in 0..TextLen(result[s])
  /\ selection[s].start # k
  /\ selection' = [selection EXCEPT ![s] = [res |-> result[s], start |-> k, end |-> k]]
  /\ said' = ""
  /\ hostObjects' = hostObjects
  /\ textChange' = None
  /\ UNCHANGED <<activeRecog, nSessions, allowAutoRefresh, parent, result,
                 firstCb, refreshCb, cbArg, inFlight, timers,
                 monitoring, focus, eventQueue, mainPc, startAuto>>

\* The main thread takes the next entry of the event queue: a queued
\* gainFocus makes the presenter the focus object, the object that held
\* focus gets event_loseFocus and the presenter event_gainFocus; a queued
\* ui.message speaks.
pumpEvent ==
  /\ mainPc = "idle"
  /\ eventQueue # <<>>
  /\ eventQueue' = Tail(eventQueue)
  /\ LET e == Head(eventQueue)
     IN IF e.kind = "gainFocus"
        THEN /\ focus' = e.obj
             /\ monitoring' = event_gainFocus(event_loseFocus(monitoring, focus), e.obj)
             /\ said' = ""
             /\ hostObjects' = hostObjects
             /\ textChange' = None
        ELSE /\ UNCHANGED <<focus, monitoring>>
             /\ said' = e.text
             /\ hostObjects' = hostObjects
             /\ textChange' = None
  /\ UNCHANGED <<activeRecog, nSessions, allowAutoRefresh, parent, result,
                 selection, firstCb, refreshCb, cbArg, inFlight, timers,
                 mainPc, startAuto>>

\* A real object o of the host gains focus (the user moves focus away).
focusChange(o) ==
  /\ mainPc = "idle"
  /\ o \in hostObjects
  /\ o # focus
  /\ focus' = o
  /\ monitoring' = event_loseFocus(monitoring, focus)
  /\ said' = ""
  /\ hostObjects' = hostObjects
  /\ textChange' = None
  /\ UNCHANGED <<activeRecog, nSessions, allowAutoRefresh, parent, result,
                 selection, firstCb, refreshCb, cbArg, inFlight, timers,
                 eventQueue, mainPc, startAuto>>

\* The recognizer honours cancel(): the callback of s is never called.
cancelHonoured(s) ==
  /\ firstCb[s] = "cancelling"
  /\ firstCb' = [firstCb EXCEPT ![s] = "dropped"]
  /\ said' = ""
  /\ hostObjects' = hostObjects
  /\ textChange' = None
  /\ UNCHANGED <<activeRecog, nSessions, allowAutoRefresh, parent, result,
                 selection, refreshCb, cbArg, inFlight, timers,
                 monitoring, focus, eventQueue, mainPc, startAuto>>

\* ---------------------------------------------------- recognizeNavigatorObject

\* The guards with the test of validateCaptureBounds left out.
failedGuardNoBounds(focusObj, inp) ==
  IF IsResultObject(focusObj) THEN "inResult"
  ELSE IF ~inp.validObj THEN "validateObject"
  ELSE IF ~inp.locOk THEN "location"
  ELSE IF ~inp.imgOk THEN "createFromRecognizer"
  ELSE "none"

\* The first guard of recognizeNavigatorObject that fails, "none" if none.
failedGuard(focusObj, inp) ==
  IF IsResultObject(focusObj) THEN "inResult"
  ELSE IF ~inp.validObj THEN "validateObject"
  ELSE IF ~inp.locOk THEN "location"
  ELSE IF ~inp.boundsOk THEN "validateCaptureBounds"
  ELSE IF ~inp.imgOk THEN "createFromRecognizer"
  ELSE "none"

\* What the failing guard passes to ui.message.
guardMessage(g) ==
  IF g = "inResult" THEN MsgAlreadyInResult
  ELSE IF g \in {"location", "createFromRecognizer"} THEN MsgNotVisible
  ELSE ""

\* What a call can meet: validateObject's answer, whether nav.location
\* unpacks, validateCaptureBounds' answer, whether createFromRecognizer
\* returns; at most one of them fails.
StartInputs ==
  {inp \in [validObj : BOOLEAN, locOk : BOOLEAN, boundsOk : BOOLEAN, imgOk : BOOLEAN] :
     Cardinality({f \in {"validObj", "locOk", "boundsOk", "imgOk"} : ~inp[f]}) <= 1}

\* Lines 229-254: the guards, then the test of _activeRecog.
recognizeNavigatorObject(inp, auto) ==
  /\ mainPc = "idle"
  /\ LET g == failedGuard(focus, inp)
     IN IF g # "none"
        THEN /\ UNCHANGED <<mainPc, startAuto>>
             /\ said' = guardMessage(g)
             /\ hostObjects' = hostObjects
             /\ textChange' = None
        ELSE /\ nSessions < MaxSessions
             /\ nSessions + Cardinality(hostObjects) < MaxObjects
             /\ Outstanding < MaxOutstanding
             /\ mainPc' = IF activeRecog # None THEN "cancel" ELSE "install"
             /\ startAuto' = auto
             /\ said' = ""
             /\ hostObjects' = hostObjects
             /\ textChange' = None
  /\ UNCHANGED <<activeRecog, nSessions, allowAutoRefresh, parent, result,
                 selection, firstCb, refreshCb, cbArg, inFlight, timers,
                 monitoring, focus, eventQueue>>

\* recognizer.cancel(): a pending recognize call is asked to stop.
cancel(call) == IF call = "pending" THEN "cancelling" ELSE call

\* Line 255: _activeRecog.recognizer.cancel(); an AttributeError ends the
\* call when _activeRecog is None by now.
startCancel ==
  /\ mainPc = "cancel"
  /\ IF activeRecog = None
     THEN /\ mainPc' = "idle"
          /\ startAuto' = FALSE
          /\ UNCHANGED firstCb
     ELSE /\ mainPc' = "install"
          /\ firstCb' = [firstCb EXCEPT ![activeRecog] = cancel(@)]
          /\ UNCHANGED startAuto
  /\ said' = ""
  /\ hostObjects' = hostObjects
  /\ textChange' = None
  /\ UNCHANGED <<activeRecog, nSessions, allowAutoRefresh, parent, result,
                 selection, refreshCb, cbArg, inFlight, timers, monitoring,
                 focus, eventQueue>>

\* Lines 257-258: "Recognizing", then the new presenter becomes _activeRecog.
startInstall ==
  /\ mainPc = "install"
  /\ nSessions' = nSessions + 1
  /\ allowAutoRefresh' = [allowAutoRefresh EXCEPT ![nSessions + 1] = startAuto]
  /\ parent' = [parent EXCEPT ![nSessions + 1] = focus]
  /\ activeRecog' = nSessions + 1
  /\ mainPc' = "run"
  /\ startAuto' = FALSE
  /\ said' = MsgRecognizing
  /\ hostObjects' = hostObjects
  /\ textChange' = None
  /\ UNCHANGED <<result, selection, firstCb, refreshCb, cbArg, inFlight, timers,
                 monitoring, focus, eventQueue>>

\* Line 259: _activeRecog.start(), that is _recognize(_onFirstResult); an
\* AttributeError ends the call when _activeRecog is None by now.
startRun ==
  /\ mainPc = "run"
  /\ mainPc' = "idle"
  /\ IF activeRecog = None \/ recognizeSkips(activeRecog)
     THEN UNCHANGED firstCb
     ELSE /\ Outstanding < MaxOutstanding
          /\ firstCb' = [firstCb EXCEPT ![activeRecog] = "pending"]
  /\ said' = ""
  /\ hostObjects' = hostObjects
  /\ textChange' = None
  /\ UNCHANGED <<activeRecog, nSessions, allowAutoRefresh, parent, result,
                 selection, refreshCb, cbArg, inFlight, timers,
                 monitoring, focus, eventQueue, startAuto>>

\* ------------------------------------------------------------- specification

Next ==
  \/ \E inp \in StartInputs, auto \in BOOLEAN : recognizeNavigatorObject(inp, auto)
  \/ startCancel
  \/ startInstall
  \/ startRun
  \/ \E s \in Sessions, r \in 0..NumResults : onFirstResultClear(s, r)
  \/ \E s \in Sessions : onFirstResultRest(s)
  \/ \E s \in Sessions, r \in 0..NumResults : onResultCheck(s, r)
  \/ \E s \in Sessions : onResultRest(s)
  \/ \E s \in Sessions : recognize(s)
  \/ \E s \in Sessions : script_refreshBuffer(s)
  \/ \E s \in Sessions : script_exit(s)
  \/ \E s \in Sessions, k \in 0..TextLen(NumResults) : moveCaret(s, k)
  \/ pumpEvent
  \/ \E o \in ExtObjects : focusChange(o)
  \/ \E s \in Sessions : cancelHonoured(s)

Spec == Init /\ [][Next]_vars

\* ------------------------------------------------------------------- claims

\* The first recognition of s is started and its callback has not returned.
FirstInFlight(s) == firstCb[s] \in {"pending", "cancelling", "running", "late"}

\* A gainFocus event for presenter s is queued.
FocusQueued(s) ==
  \E i \in 1..Len(eventQueue) :
    eventQueue[i].kind = "gainFocus" /\ eventQueue[i].obj = s

\* The step is the return of _onFirstResult of s, called with a result.
FirstSuccessStep(s) ==
  /\ firstCb[s] \in {"running", "late"}
  /\ firstCb'[s] = "done"
  /\ cbArg[s] # 0

\* The step is the return of _onFirstResult of s, called with an Exception.
FirstFailureStep(s) ==
  /\ firstCb[s] \in {"running", "late"}
  /\ firstCb'[s] = "done"
  /\ cbArg[s] = 0

\* The step is the delivery of a refresh result to _onResult of s.
RefreshDeliveryStep(s) == inFlight'[s] < inFlight[s]

\* The step is the firing of a timer of s.
TimerStep(s) == timers'[s] < timers[s]

\* Session s is treated as active: its first result is being accepted, or
\* it is to be given focus, or it holds focus.
Active(s) == firstCb[s] \in {"running", "late"} \/ FocusQueued(s) \/ hasFocus(s)

\* C1: at most one session is active, active meaning eligible to have its
\* recognition result accepted or to be given focus: no two sessions are
\* both eligible.
C1_AtMostOneActive == Cardinality({s \in Sessions : Active(s)}) <= 1

\* C2: whenever start passes its guards while an earlier session's first
\* recognition is in flight, cancel() is called on that session's
\* recognizer: a session whose first recognition is pending without a
\* cancel request is the newest session.
C2_StartCancelsEarlier ==
  \A s \in Sessions : firstCb[s] = "pending" => s = nSessions

\* C3: when the first-recognition callback of a session that was replaced
\* and asked to cancel returns with a result, no gainFocus event is queued
\* for it, no timer is armed for it, and no other presenter's result is set.
C3_LateCallbackDiscarded ==
  [][\A s \in Sessions :
       (FirstSuccessStep(s) /\ firstCb[s] = "late")
         => /\ ~FocusQueued(s)'
            /\ timers'[s] = timers[s]
            /\ \A o \in Sessions \ {s} : result'[o] = result[o]]_vars

\* The delivered result is discarded: nothing but the count of calls in
\* flight and the state of the callback changes.
Discarded(s) ==
  /\ result' = result
  /\ selection' = selection
  /\ eventQueue' = eventQueue
  /\ timers' = timers
  /\ monitoring' = monitoring

\* C4 as stated: a callback (first recognition or refresh) delivered to a
\* presenter that does not hold focus is discarded.
C4_UnfocusedResultDiscarded ==
  [][\A s \in Sessions :
       (~hasFocus(s) /\ (RefreshDeliveryStep(s) \/ FirstSuccessStep(s)))
         => Discarded(s)]_vars

\* C4 as amended: a refresh callback (_onResult) delivered to a presenter
\* that does not hold focus is discarded, and _onResult returns at once;
\* _onFirstResult makes no focus test.
C4_UnfocusedRefreshDiscarded ==
  [][\A s \in Sessions :
       (~hasFocus(s) /\ RefreshDeliveryStep(s))
         => Discarded(s) /\ refreshCb' = refreshCb /\ cbArg' = cbArg]_vars

\* C4: a refresh result is due for a presenter that has a result, whose
\* caret the user moved, and that holds focus no more.
C4_Witness ==
  \E s \in Sessions :
    inFlight[s] > 0 /\ ~hasFocus(s) /\ result[s] # None /\ selection[s].start > 0

\* The inputs of a call of recognizeNavigatorObject pass every guard.
GoodInputs(inp) ==
  /\ ~IsResultObject(focus)
  /\ inp.validObj /\ inp.locOk /\ inp.boundsOk /\ inp.imgOk

\* C5: a call of recognizeNavigatorObject one of whose guards fails leaves
\* the whole state as it is (same _activeRecog, no cancel(), no session, no
\* capture or recognize call) and does not say "Recognizing".
C5_FailedGuardNoChange ==
  [][(\E inp \in StartInputs :
        ~GoodInputs(inp) /\ \E auto \in BOOLEAN : recognizeNavigatorObject(inp, auto))
       => UNCHANGED progVars /\ said' # MsgRecognizing]_vars

\* C5: a guard has just failed with "Content is not visible" while a
\* session's first recognition is pending, untouched.
C5_Witness ==
  /\ said = MsgNotVisible
  /\ mainPc = "idle"
  /\ activeRecog # None
  /\ firstCb[activeRecog] = "pending"

\* C6: when the first-recognition callback returns with a result, the
\* result is set to it, the cursor is collapsed at offset 0 of that result
\* (which is what reading the presenter at First answers), a gainFocus event
\* for the presenter is queued and focus is not moved by the callback, and
\* a timer is armed if and only if allowAutoRefresh.
C6_FirstSuccess ==
  [][\A s \in Sessions :
       FirstSuccessStep(s)
         => /\ result'[s] = cbArg[s]
            /\ selection'[s] = [res |-> cbArg[s], start |-> 0, end |-> 0]
            /\ makeTextInfo(selection[s], result[s], POSITION_FIRST)' = selection'[s]
            /\ makeTextInfo(selection[s], result[s], POSITION_CARET)' = selection'[s]
            /\ eventQueue' = Append(eventQueue, [kind |-> "gainFocus", obj |-> s, text |-> ""])
            /\ focus' = focus
            /\ timers'[s] = timers[s] + (IF allowAutoRefresh[s] THEN 1 ELSE 0)]_vars

\* C6: a first result was accepted: the result and the cursor are set, the
\* gainFocus event is queued, the presenter does not hold focus yet, and
\* the timer of an auto-refreshing recognizer is armed.
C6_Witness ==
  \E s \in Sessions :
    /\ firstCb[s] = "done"
    /\ result[s] \in Results
    /\ selection[s] = [res |-> result[s], start |-> 0, end |-> 0]
    /\ FocusQueued(s)
    /\ ~hasFocus(s)
    /\ allowAutoRefresh[s]
    /\ timers[s] = 1

\* The first recognition of s failed.
Failed(s) == firstCb[s] = "done" /\ result[s] = None

\* C7: when the first-recognition callback returns with a failure,
\* "Recognition failed" is queued, the result stays unset, no gainFocus is
\* queued, no timer is armed and the session is not the active one; ever
\* after the session holds no focus and has no recognize call or timer.
C7_FirstFailure ==
  /\ [][\A s \in Sessions :
          FirstFailureStep(s)
            => /\ eventQueue' = Append(eventQueue,
                    [kind |-> "message", obj |-> 0, text |-> MsgRecognitionFailed])
               /\ result'[s] = None
               /\ timers' = timers
               /\ activeRecog' # s]_vars
  /\ [](\A s \in Sessions :
          Failed(s)
            => /\ ~hasFocus(s)
               /\ ~FocusQueued(s)
               /\ activeRecog # s
               /\ timers[s] = 0
               /\ inFlight[s] = 0
               /\ ~refreshCb[s])

\* C7: a first recognition has failed and its message is queued.
C7_Witness ==
  \E s \in Sessions :
    /\ Failed(s)
    /\ eventQueue # <<>>
    /\ eventQueue[Len(eventQueue)].text = MsgRecognitionFailed

\* C8 as stated: every session has at most one armed timer.
C8_AtMostOneTimer == \A s \in Sessions : timers[s] <= 1

\* C8 as amended: a session whose recognizer has allowAutoRefresh has at
\* most one armed timer, and exactly one right after its first result;
\* with allowAutoRefresh false no timer is armed by a result, and every
\* manual refresh request arms one more.
C8_TimersPerSession ==
  /\ [](\A s \in Sessions : allowAutoRefresh[s] => timers[s] <= 1)
  /\ [][\A s \in Sessions :
          /\ (FirstSuccessStep(s) /\ allowAutoRefresh[s]) => timers'[s] = 1
          /\ (~allowAutoRefresh[s] /\ timers'[s] > timers[s])
               => script_refreshBuffer(s) /\ timers'[s] = timers[s] + 1]_vars

\* C8: right after the first result of an auto-refreshing session, one
\* timer is armed.
C8_Witness ==
  \E s \in Sessions :
    allowAutoRefresh[s] /\ timers[s] = 1 /\ FocusQueued(s) /\ inFlight[s] = 0

\* C9 as stated: when a presenter loses focus, its pending timers are
\* cancelled.
C9_LoseFocusCancelsTimer ==
  [][\A s \in Sessions : (hasFocus(s) /\ ~hasFocus(s)') => timers'[s] = 0]_vars

\* C9 as amended: losing focus leaves the armed timers armed; a timer that
\* fires while the presenter has a result and no focus only calls
\* _recognize, which returns at once: no capture or recognize call, no new
\* timer, nothing else changed.
C9_TimerAfterLoseFocus ==
  [][\A s \in Sessions :
       /\ (hasFocus(s) /\ ~hasFocus(s)') => timers' = timers
       /\ (TimerStep(s) /\ result[s] # None /\ ~hasFocus(s))
            => /\ timers'[s] = timers[s] - 1
               /\ UNCHANGED <<activeRecog, nSessions, allowAutoRefresh, parent,
                              result, selection, firstCb, refreshCb, cbArg,
                              inFlight, monitoring, focus, eventQueue, mainPc,
                              startAuto>>]_vars

\* C9: a timer is armed for a presenter that held focus (the user moved
\* its caret) and holds it no more.
C9_Witness ==
  \E s \in Sessions :
    timers[s] > 0 /\ ~hasFocus(s) /\ ~FocusQueued(s) /\ selection[s].start > 0

\* C10: a manual refresh request on a presenter whose recognizer has
\* allowAutoRefresh only says that the result is updated automatically: no
\* timer, no capture or recognize call, the state is as it was.
C10_ManualRefreshRefused ==
  [][\A s \in Sessions :
       (script_refreshBuffer(s) /\ allowAutoRefresh[s])
         => UNCHANGED progVars /\ said' = MsgAlreadyAuto]_vars

\* C10: the refusal was just said to the focused presenter of an
\* auto-refreshing recognizer.
C10_Witness ==
  /\ said = MsgAlreadyAuto
  /\ \E s \in Sessions : hasFocus(s) /\ allowAutoRefresh[s]

\* The step is the return of _onResult of s, called with a result.
RefreshSuccessStep(s) == refreshCb[s] /\ ~refreshCb'[s] /\ cbArg[s] # 0

\* The step is the return of _onResult of s, called with an Exception.
RefreshFailureStep(s) == refreshCb[s] /\ ~refreshCb'[s] /\ cbArg[s] = 0

\* The cursor of s is at the same offsets after the step, in the text of
\* result r.
CursorKept(s, r) ==
  /\ selection'[s].res = r
  /\ selection'[s].start = selection[s].start
  /\ selection'[s].end = selection[s].end

\* C11: with allowAutoRefresh false, a manual refresh request arms exactly
\* one zero-delay call of _recognize, which issues exactly one recognize
\* call when it fires on the focused presenter; recognize calls and timers
\* arise in no other way; when the callback returns with a result, the
\* result is replaced by it, the cursor is at the same offsets (for a text
\* of the same length), and no timer is armed and no recognize call issued.
C11_ManualRefresh ==
  [][\A s \in Sessions :
       ~allowAutoRefresh[s]
         => /\ script_refreshBuffer(s)
                 => timers'[s] = timers[s] + 1 /\ inFlight' = inFlight
            /\ (TimerStep(s) /\ hasFocus(s))
                 => timers'[s] = timers[s] - 1 /\ inFlight'[s] = inFlight[s] + 1
            /\ inFlight'[s] > inFlight[s] => TimerStep(s)
            /\ timers'[s] > timers[s] => script_refreshBuffer(s)
            /\ RefreshSuccessStep(s)
                 => /\ result'[s] = cbArg[s]
                    /\ TextLen(cbArg[s]) = TextLen(result[s]) => CursorKept(s, cbArg[s])
                    /\ timers' = timers
                    /\ inFlight' = inFlight]_vars

\* C11: a manual refresh has just replaced the result of a presenter
\* without auto-refresh whose caret the user had moved; the caret is where
\* it was and nothing more is armed or in flight.
C11_Witness ==
  \E s \in Sessions :
    /\ textChange = s
    /\ ~allowAutoRefresh[s]
    /\ result[s] = 2
    /\ selection[s] = [res |-> 2, start |-> 1, end |-> 1]
    /\ timers[s] = 0
    /\ inFlight[s] = 0

\* C12: when _onResult returns with a result, the result of the presenter
\* is replaced by it, the cursor refers to the new result at the offsets it
\* had (for a text of the same length), event_textChange is raised once,
\* for that presenter and by no other step, and a timer is armed if and
\* only if allowAutoRefresh.
C12_RefreshSuccess ==
  [][/\ \A s \in Sessions :
          RefreshSuccessStep(s)
            => /\ result'[s] = cbArg[s]
               /\ TextLen(cbArg[s]) = TextLen(result[s]) => CursorKept(s, cbArg[s])
               /\ textChange' = s
               /\ timers'[s] = timers[s] + (IF allowAutoRefresh[s] THEN 1 ELSE 0)
               /\ \A o \in Sessions \ {s} : result'[o] = result[o] /\ timers'[o] = timers[o]
     /\ textChange' # None => RefreshSuccessStep(textChange')]_vars

\* C12: a refresh has just replaced the result of a focused auto-refreshing
\* presenter whose caret the user had moved: the caret is where it was,
\* the text change was raised and the next timer is armed.
C12_Witness ==
  \E s \in Sessions :
    /\ textChange = s
    /\ allowAutoRefresh[s]
    /\ hasFocus(s)
    /\ result[s] = 2
    /\ selection[s] = [res |-> 2, start |-> 1, end |-> 1]
    /\ timers[s] = 1

\* The refresh loop of an auto-refreshing session s has stopped: its first
\* result was delivered and no timer, recognize call or callback is left.
RefreshStopped(s) ==
  /\ allowAutoRefresh[s]
  /\ firstCb[s] = "done"
  /\ timers[s] = 0
  /\ inFlight[s] = 0
  /\ ~refreshCb[s]

\* C13: when _onResult returns with a failure, "Refresh of recognition
\* result failed" (which is not the message of a failed first recognition)
\* is queued, monitoring is stopped, the result and the cursor are kept and
\* no timer is armed; with allowAutoRefresh the refresh loop has stopped,
\* and a stopped loop never issues a recognize call or arms a timer again.
C13_RefreshFailure ==
  /\ [][\A s \in Sessions :
          /\ RefreshFailureStep(s)
               => /\ eventQueue' = Append(eventQueue,
                       [kind |-> "message", obj |-> 0, text |-> MsgRefreshFailed])
                  /\ MsgRefreshFailed # MsgRecognitionFailed
                  /\ ~monitoring'[s]
                  /\ result' = result
                  /\ selection' = selection
                  /\ timers' = timers
                  /\ inFlight' = inFlight
                  /\ textChange' = None
                  /\ allowAutoRefresh[s] => RefreshStopped(s)'
          /\ RefreshStopped(s) => RefreshStopped(s)']_vars

\* C13: the refresh of a focused auto-refreshing presenter has failed: the
\* message is queued, monitoring is off, the result is kept and the loop
\* has stopped.
C13_Witness ==
  \E s \in Sessions :
    /\ RefreshStopped(s)
    /\ hasFocus(s)
    /\ ~monitoring[s]
    /\ result[s] # None
    /\ selection[s].start = 1
    /\ eventQueue # <<>>
    /\ eventQueue[Len(eventQueue)].text = MsgRefreshFailed

\* C14: the active-session pointer, the results and the cursors are
\* written on the main thread only: while the main thread is inside
\* recognizeNavigatorObject (between lines 254 and 259), a step that is not
\* its own, a step of a recognizer thread, writes none of them.
C14_MainThreadOnly ==
  [][(mainPc # "idle" /\ mainPc' = mainPc)
       => /\ activeRecog' = activeRecog
          /\ result' = result
          /\ selection' = selection]_vars

\* C15: script_exit gives focus to the parent of the presenter, which is
\* the object that held focus when the presenter was created and never
\* changes; while a presenter with a result does not hold focus, a timer of
\* it that fires issues no recognize call and a refresh result delivered to
\* it changes nothing.
C15_Dismiss ==
  [][\A s \in Sessions :
       /\ (hasFocus(s) /\ script_exit(s)) => focus' = parent[s] /\ ~hasFocus(s)'
       /\ (nSessions' = s /\ nSessions = s - 1) => parent'[s] = focus
       /\ s <= nSessions => parent'[s] = parent[s]
       /\ (~hasFocus(s) /\ result[s] # None /\ TimerStep(s))
            => inFlight' = inFlight /\ timers'[s] = timers[s] - 1
       /\ (~hasFocus(s) /\ RefreshDeliveryStep(s))
            => Discarded(s) /\ textChange' = None /\ ~refreshCb'[s]]_vars

\* C15: the presenter was created while object -1 held focus, got focus
\* (the user moved its caret) and was dismissed: object -1 holds focus
\* again, and a timer of the presenter is still armed.
C15_Witness ==
  \E s \in Sessions :
    /\ parent[s] = 0 - 1
    /\ focus = parent[s]
    /\ selection[s].start = 1
    /\ ~FocusQueued(s)
    /\ timers[s] > 0

\* C16: a presenter that holds focus or is about to (so that it can be read
\* or asked to refresh), or that has a timer armed or a refresh recognize
\* call or callback under way, has a result and a cursor into that result.
C16_ResultSetBeforeRead ==
  \A s \in Sessions :
    (hasFocus(s) \/ FocusQueued(s) \/ timers[s] > 0 \/ inFlight[s] > 0 \/ refreshCb[s])
      => /\ result[s] \in Results
         /\ selection[s] # NoSelection
         /\ selection[s].res = result[s]
         /\ selection[s].start \in 0..TextLen(result[s])

\* C16: a focused presenter whose caret was moved has a refresh recognize
\* call under way and another timer armed.
C16_Witness ==
  \E s \in Sessions :
    hasFocus(s) /\ inFlight[s] > 0 /\ timers[s] > 0 /\ selection[s].start = 1

\* C17: when the presenter of a session with allowAutoRefresh gains focus,
\* a deferred refresh call is armed for it.
C17_GainFocusArmsTimer ==
  [][\A s \in Sessions :
       (~hasFocus(s) /\ hasFocus(s)' /\ allowAutoRefresh[s]) => timers'[s] > 0]_vars

\* C18: _activeRecog stops referring to a session only when the
\* first-result callback of that very session begins or when a later start
\* installs a new session.
C18_ClearedByOwnCallback ==
  [][(activeRecog # None /\ activeRecog' # activeRecog)
       => \/ /\ firstCb[activeRecog] \in {"pending", "cancelling"}
             /\ firstCb'[activeRecog] \in {"running", "late"}
          \/ /\ nSessions' = nSessions + 1
             /\ activeRecog' = nSessions']_vars

\* C19: when recognizeNavigatorObject is about to call cancel() at line
\* 255, _activeRecog still is the session that the test of line 254 saw.
C19_CancelSeesSession == mainPc = "cancel" => activeRecog # None

\* C20: with allowAutoRefresh, a timer that fires for a presenter that
\* holds focus, or whose gainFocus event is still queued, issues a
\* recognize call.
C20_TimerLeadsToRecognize ==
  [][\A s \in Sessions :
       (TimerStep(s) /\ allowAutoRefresh[s] /\ (hasFocus(s) \/ FocusQueued(s)))
         => inFlight'[s] = inFlight[s] + 1]_vars

====
